---- MODULE Spec2Model ----
(***************************************************************************)
(* The theme store of the template: createThemeStore() wraps a Svelte      *)
(* writable<Theme> and mirrors its value into the "dark" class of          *)
(* document.documentElement.                                               *)
(*                                                                         *)
(* The store's own code (updateClass, update, set, toggle) is translated   *)
(* line by line.  The calls it makes into the platform are modelled by     *)
(* what the platform does: classList.contains/add/remove act on one        *)
(* boolean, and writable() of svelte/store keeps a value, an insertion     *)
(* ordered set of subscribers, the `stop` handle and the module-level      *)
(* subscriber_queue that set() fills and the outermost set() drains.       *)
(*                                                                         *)
(* Subscriber callbacks are application code: while a callback notified of *)
(* a change runs it may call any operation of the store (set, update,      *)
(* toggle, subscribe, an unsubscribe function) before it returns.  The     *)
(* call stack is explicit so that such re-entrant calls happen where       *)
(* JavaScript lets them happen.  The first invocation of a callback, made  *)
(* by subscribe itself, returns without calling the store.                 *)
(***************************************************************************)
EXTENDS Integers, Sequences, FiniteSets, TLC

\* ---------------------------------------------------------------- bounds
\* Number of distinct callbacks; each is passed to subscribe at most once.
MaxSubs == 2
\* Total number of set/update/toggle calls in one behaviour.
MaxOps == 2

\* ------------------------------------------------------------- constants
LIGHT == "light"
DARK == "dark"
Theme == {LIGHT, DARK}
\* A run-time value outside the enum (the enum is erased when compiled).
Invalid == "blue"
AnyValue == Theme \cup {Invalid}

Subs == 1..MaxSubs
\* Updater<Theme>: the functions the type of `update` admits.
Updaters == [Theme -> Theme]
\* What an untyped caller can pass: any function on run-time values.
UncheckedUpdaters == [AnyValue -> AnyValue]

VARIABLES
  marker,            \* document.documentElement.classList.contains("dark")
  value,             \* writable: the stored value
  subscribers,       \* writable: Set of subscribers, in insertion order
  stop,              \* writable: `stop` is non-null
  subscriber_queue,  \* svelte/store: pending <<subscriber, value>> pairs
  qi,                \* index of the draining loop in subscriber_queue
  stack,             \* call stack: callbacks running and the draining set()
  log,               \* history: values each callback was invoked with
  changes,           \* history: successive values the store changed to
  base,              \* history: Len(changes) when the callback subscribed
  nOps,              \* history: number of set/update/toggle calls so far
  lastOp,            \* history: the last set/update/toggle call applied
  prevOp,            \* history: the one applied before it
  ret,               \* history: the call that returned in the last step
  reentered          \* history: a change was applied during this round

vars == <<marker, value, subscribers, stop, subscriber_queue, qi, stack,
          log, changes, base, nOps, lastOp, prevOp, ret, reentered>>

\* ----------------------------------------------------------- sequences
Range(s) == {s[i] : i \in 1..Len(s)}
Last(s) == s[Len(s)]
Remove(s, x) == SelectSeq(s, LAMBDA y : y # x)
IsPrefix(s, t) == Len(s) <= Len(t) /\ SubSeq(t, 1, Len(s)) = s

\* ---------------------------------------------------------- store code
\* createThemeStore: the initial value read from the class list.
InitialTheme_AlwaysLight(m) == LIGHT
InitialTheme(m) == IF m THEN DARK ELSE LIGHT

\* updateClass: the class list after the call.
updateClass_NoRemove(m, theme) == IF theme = DARK THEN TRUE ELSE m
updateClass(m, theme) ==
  IF theme = DARK
    THEN (IF ~m THEN TRUE ELSE m)
    ELSE (IF m THEN FALSE ELSE m)

\* updateClass: whether classList.add or classList.remove was executed.
classListWritten(m, theme) ==
  IF theme = DARK THEN ~m ELSE m

\* toggle's updater.
ToggleUpdater_AlwaysDark(theme) == DARK
ToggleUpdater(theme) == IF theme = DARK THEN LIGHT ELSE DARK

\* update: `const newTheme = updater(theme)`.
UpdaterResult_Ignored(updater, theme) == theme
UpdaterResult(updater, theme) == updater[theme]

\* ------------------------------------------------------- svelte/store
\* safe_not_equal on primitive strings is `a !== b`.
safe_not_equal_Always(a, b) == TRUE
safe_not_equal(a, b) == a # b

\* `for (const subscriber of subscribers) subscriber_queue.push(subscriber, value)`
QueueEntries_FirstOnly(subs, v) ==
  IF subs = <<>> THEN <<>> ELSE <<[sub |-> subs[1], val |-> v]>>
QueueEntries(subs, v) ==
  [i \in 1..Len(subs) |-> [sub |-> subs[i], val |-> v]]

\* `const run_queue = !subscriber_queue.length`
RunQueue_Never(queue) == FALSE
RunQueue(queue) == Len(queue) = 0

\* ------------------------------------------------------------ history
NoCall ==
  [op |-> "none", arg |-> "none", before |-> <<"none", FALSE>>,
   inRound |-> FALSE, lens |-> [s \in Subs |-> 0], regs |-> {},
   evals |-> <<>>, wrote |-> FALSE, seq |-> 0]

\* The record of a call of `op` that applies `t`, made in the current state.
Call(op, t, evals) ==
  [op |-> op, arg |-> t, before |-> <<value, marker>>,
   inRound |-> (Len(subscriber_queue) > 0),
   lens |-> [s \in Subs |-> Len(log[s])], regs |-> Range(subscribers),
   evals |-> evals, wrote |-> classListWritten(marker, t), seq |-> nOps + 1]

\* What lastOp and prevOp keep of a call.
Applied(c) ==
  [op |-> c.op, arg |-> c.arg, before |-> c.before, evals |-> c.evals,
   wrote |-> c.wrote]

NoFrame == [kind |-> "none", sub |-> 0, val |-> "none", call |-> NoCall]
Frame(kind, s, v, c) == [kind |-> kind, sub |-> s, val |-> v, call |-> c]
Top == IF stack = <<>> THEN NoFrame ELSE Last(stack)
Pop == SubSeq(stack, 1, Len(stack) - 1)

\* The callbacks whose unsubscribe function has been invoked.
Unsubscribed == {s \in Subs : base[s] # -1 /\ s \notin Range(subscribers)}

\* Application code runs: the top level, or a subscriber callback.
CanCall == Top.kind \in {"none", "notify"}

Init ==
  /\ marker \in BOOLEAN
  /\ value = InitialTheme(marker)
  /\ subscribers = <<>>
  /\ stop = FALSE
  /\ subscriber_queue = <<>>
  /\ qi = 0
  /\ stack = <<>>
  /\ log = [s \in Subs |-> <<>>]
  /\ changes = <<>>
  /\ base = [s \in Subs |-> -1]
  /\ nOps = 0
  /\ lastOp = Applied(NoCall)
  /\ prevOp = Applied(NoCall)
  /\ ret = NoCall
  /\ reentered = FALSE

\* writable's set(new_value), called for the call `c` of the store.
WritableSet(new_value, c) ==
  /\ changes' = IF new_value # value THEN Append(changes, new_value) ELSE changes
  /\ IF safe_not_equal(value, new_value)
       THEN /\ value' = new_value
            /\ IF stop
                 THEN /\ subscriber_queue' =
                           subscriber_queue \o QueueEntries(subscribers, new_value)
                      /\ IF RunQueue(subscriber_queue)
                           THEN /\ stack' = Append(stack, Frame("drain", 0, new_value, c))
                                /\ qi' = 1
                                /\ ret' = NoCall
                                /\ reentered' = FALSE
                           ELSE /\ UNCHANGED <<stack, qi>>
                                /\ ret' = c
                                /\ reentered' = TRUE
                 ELSE /\ UNCHANGED <<subscriber_queue, stack, qi>>
                      /\ ret' = c
                      /\ reentered' = (Len(subscriber_queue) > 0)
       ELSE /\ UNCHANGED <<value, subscriber_queue, stack, qi, reentered>>
            /\ ret' = c

\* The history kept for every set/update/toggle call.
Record(c) ==
  /\ nOps' = nOps + 1
  /\ lastOp' = Applied(c)
  /\ prevOp' = lastOp
  /\ UNCHANGED <<subscribers, stop, log, base>>

\* set: updateClass(newTheme); theme.set(newTheme)
SetCode_NoSync(newTheme, c) ==
  /\ marker' = marker
  /\ WritableSet(newTheme, c)
SetCode(newTheme, c) ==
  /\ marker' = updateClass(marker, newTheme)
  /\ WritableSet(newTheme, c)

\* update: theme.update(fn) is set(fn(value)); fn runs the updater, then
\* updateClass on its result, and returns the result.
UpdateCode(updater, c) ==
  LET newTheme == UpdaterResult(updater, value) IN
  /\ marker' = updateClass(marker, newTheme)
  /\ WritableSet(newTheme, c)

Set(newTheme) ==
  /\ CanCall
  /\ nOps < MaxOps
  /\ LET c == Call("set", newTheme, <<>>) IN
       SetCode(newTheme, c) /\ Record(c)

Update(updater) ==
  /\ CanCall
  /\ nOps < MaxOps
  /\ LET c == Call("update", UpdaterResult(updater, value), <<value>>) IN
       UpdateCode(updater, c) /\ Record(c)

ToggleFn == [theme \in AnyValue |-> ToggleUpdater(theme)]

Toggle ==
  /\ CanCall
  /\ nOps < MaxOps
  /\ LET c == Call("toggle", UpdaterResult(ToggleFn, value), <<value>>) IN
       UpdateCode(ToggleFn, c) /\ Record(c)

\* writable's subscribe(run): add the subscriber, start the store when it is
\* the first one, call run(value), which returns.
Subscribe(s) ==
  /\ CanCall
  /\ base[s] = -1
  /\ \A r \in Subs : r < s => base[r] # -1
  /\ subscribers' = Append(subscribers, s)
  /\ stop' = IF Len(subscribers') = 1 THEN TRUE ELSE stop
  /\ log' = [log EXCEPT ![s] = Append(@, value)]
  /\ base' = [base EXCEPT ![s] = Len(changes)]
  /\ ret' = NoCall
  /\ UNCHANGED <<marker, value, subscriber_queue, qi, stack, changes, nOps, lastOp, prevOp, reentered>>

\* The function subscribe returned: delete the subscriber, stop the store
\* when none is left.  Calling it again deletes nothing.
Unsubscribe(s) ==
  /\ CanCall
  /\ base[s] # -1
  /\ subscribers' = Remove(subscribers, s)
  /\ stop' = IF Len(subscribers') = 0 /\ stop THEN FALSE ELSE stop
  /\ ret' = NoCall
  /\ UNCHANGED <<marker, value, subscriber_queue, qi, stack, log, changes,
                 base, nOps, lastOp, prevOp, reentered>>

\* One iteration of `for (i = 0; i < subscriber_queue.length; i += 2)`:
\* subscriber_queue[i][0](subscriber_queue[i + 1]).
Deliver ==
  /\ Top.kind = "drain"
  /\ qi <= Len(subscriber_queue)
  /\ LET e == subscriber_queue[qi] IN
       /\ log' = [log EXCEPT ![e.sub] = Append(@, e.val)]
       /\ stack' = Append(stack, Frame("notify", e.sub, e.val, NoCall))
  /\ qi' = qi + 1
  /\ ret' = NoCall
  /\ UNCHANGED <<marker, value, subscribers, stop, subscriber_queue, changes,
                 base, nOps, lastOp, prevOp, reentered>>

\* The loop ends: subscriber_queue.length = 0, and the set() that ran the
\* queue returns, and with it the store call that made it.
DrainEnd ==
  /\ Top.kind = "drain"
  /\ qi > Len(subscriber_queue)
  /\ subscriber_queue' = <<>>
  /\ qi' = 0
  /\ stack' = Pop
  /\ ret' = Top.call
  /\ reentered' = FALSE
  /\ UNCHANGED <<marker, value, subscribers, stop, log, changes, base,
                 nOps, lastOp, prevOp>>

\* A subscriber callback returns to its caller.
Return ==
  /\ Top.kind = "notify"
  /\ stack' = Pop
  /\ ret' = NoCall
  /\ UNCHANGED <<marker, value, subscribers, stop, subscriber_queue, qi, log,
                 changes, base, nOps, lastOp, prevOp, reentered>>

Next ==
  \/ \E t \in Theme : Set(t)
  \/ \E f \in Updaters : Update(f)
  \/ Toggle
  \/ \E s \in Subs : Subscribe(s)
  \/ \E s \in Subs : Unsubscribe(s)
  \/ Deliver
  \/ DrainEnd
  \/ Return

Spec == Init /\ [][Next]_vars

\* The same store called by code that ignores the types: the updater may
\* return, and later receive, a value outside the enum.
NextUnchecked ==
  \/ \E t \in Theme : Set(t)
  \/ \E f \in UncheckedUpdaters : Update(f)
  \/ Toggle
  \/ \E s \in Subs : Subscribe(s)
  \/ \E s \in Subs : Unsubscribe(s)
  \/ Deliver
  \/ DrainEnd
  \/ Return

SpecUnchecked == Init /\ [][NextUnchecked]_vars

\* ------------------------------------------------------------- claims
\* The values a callback received since the call `c` was made.
Since(s, c) == SubSeq(log[s], c.lens[s] + 1, Len(log[s]))
\* The call `c` changed the stored value.
Changed(c) == c.arg # c.before[1]
\* The entries of subscriber_queue not delivered yet.
Pending == SubSeq(subscriber_queue, qi, Len(subscriber_queue))

\* C1: whenever a set, update or toggle call has just returned, the "dark"
\* class is on the document root iff the store's value is Dark.
C1_MarkerMatchesCurrent ==
  ret.op # "none" => (marker <=> value = DARK)

\* C1 witness: a second or later call has returned and changed the marker.
C1_Witness ==
  ret.op # "none" /\ ret.seq >= 2 /\ marker # ret.before[2]

\* C2 as stated: every callback invoked for a change receives a value v with
\* marker present iff v = Dark and the store's value equal to v, re-entrant
\* rounds included.
C2_Original ==
  [][Deliver =>
       LET e == subscriber_queue[qi] IN
         (marker <=> e.val = DARK) /\ value = e.val]_vars

\* C2 amended: whenever a callback is invoked for a change, the marker is
\* present iff the store's value is Dark; the value v it receives equals the
\* store's value (so the marker matches v) as long as no callback has changed
\* the store earlier in the same notification round.
C2_MarkerMatchesAtDelivery ==
  [][Deliver =>
       LET e == subscriber_queue[qi] IN
         /\ marker <=> value = DARK
         /\ ~reentered => (value = e.val /\ (marker <=> e.val = DARK))]_vars

\* C2 witness: a callback is running that received a value the store no
\* longer holds, because an earlier callback of the round changed the store.
C2_Witness ==
  Top.kind = "notify" /\ reentered /\ Top.val # value /\ Len(subscribers) = 2

\* C3: for every registered subscriber the values received after the first
\* call are the changes of the store since it subscribed, in order, each once:
\* a prefix of them while a round runs, all of them when no round runs.
C3_EachChangeOnceInOrder ==
  \A s \in Range(subscribers) :
    LET got == Tail(log[s])
        want == SubSeq(changes, base[s] + 1, Len(changes))
    IN  IsPrefix(got, want) /\ (subscriber_queue = <<>> => got = want)

\* C3 witness: two registered subscribers have each received two changes.
C3_Witness ==
  /\ Len(subscribers) = 2
  /\ subscriber_queue = <<>>
  /\ \A s \in Range(subscribers) : Len(log[s]) >= 3

\* C4 as stated: once its unsubscribe function has been invoked, a callback
\* is never invoked again, also when that happened inside a round.
C4_Original ==
  [][\A s \in Unsubscribed : log'[s] = log[s]]_vars

\* C5: subscribe(cb) invokes cb once, with the store's value (the initial
\* snapshot of the marker before any call, the value of the last call after),
\* invokes no other callback and changes neither the value nor the marker.
C5_SubscribeCallsOnceWithCurrent ==
  [][\A s \in Subs :
       Subscribe(s) =>
         /\ log'[s] = <<IF nOps = 0 THEN (IF marker THEN DARK ELSE LIGHT)
                                    ELSE lastOp.arg>>
         /\ \A r \in Subs \ {s} : log'[r] = log[r]
         /\ value' = value
         /\ marker' = marker]_vars

\* C5 witness: a callback subscribed after a change and has been called once.
C5_Witness ==
  \E s \in Range(subscribers) : base[s] > 0 /\ log[s] = <<value>>

\* C6: a toggle changes the value to the other variant, and two toggles in a
\* row bring the value and the marker back to what they were.
C6_ToggleInvolution ==
  /\ lastOp.op = "toggle" =>
       \/ lastOp.before[1] = LIGHT /\ value = DARK
       \/ lastOp.before[1] = DARK /\ value = LIGHT
  /\ (lastOp.op = "toggle" /\ prevOp.op = "toggle") =>
       <<value, marker>> = prevOp.before

\* C6 witness: two toggles in a row have been applied.
C6_Witness ==
  lastOp.op = "toggle" /\ prevOp.op = "toggle"

\* C7 as stated: when set(t) returns the value is t, the marker is present
\* iff t = Dark and every registered subscriber was invoked with t for it.
C7_Original ==
  ret.op = "set" =>
    /\ value = ret.arg
    /\ marker <=> ret.arg = DARK
    /\ \A s \in Range(subscribers) :
         \E i \in 1..Len(Since(s, ret)) : Since(s, ret)[i] = ret.arg

\* C7 amended: when set(t) returns, the value is t and the marker is present
\* iff t = Dark unless a callback called the store during that call; the
\* class list was written iff the marker was not correct already; if t was
\* the value already no callback was invoked; if t changed the value, every
\* subscriber registered at the call is invoked with t first: before set
\* returns when no round was running, and later in the running round (its
\* entry is pending) when set was called from inside a callback.
C7_SetApplies ==
  ret.op = "set" =>
    /\ ret.seq = nOps => (value = ret.arg /\ (marker <=> ret.arg = DARK))
    /\ ret.wrote <=> (ret.before[2] # (ret.arg = DARK))
    /\ ~Changed(ret) => \A s \in Subs : Since(s, ret) = <<>>
    /\ (Changed(ret) /\ ~ret.inRound) =>
         \A s \in ret.regs : Since(s, ret) # <<>> /\ Since(s, ret)[1] = ret.arg
    /\ (Changed(ret) /\ ret.inRound) =>
         /\ \A s \in Subs : Since(s, ret) = <<>>
         /\ \A s \in ret.regs \cap Range(subscribers) :
              \E i \in 1..Len(Pending) : Pending[i] = [sub |-> s, val |-> ret.arg]

\* C7 witness: a set that changed the value has returned after notifying two
\* subscribers.
C7_Witness ==
  /\ ret.op = "set" /\ Changed(ret) /\ ~ret.inRound
  /\ Cardinality(ret.regs) = 2

\* C8 as stated: the value is always Light or Dark and the marker follows it,
\* whatever the updater returned.
C8_Original ==
  value \in Theme /\ (marker <=> value = DARK)

====
